---- MODULE Spec2Model ----
(***************************************************************************)
(* Model of pgtools' Database (src/src/database.rs): the schema-version    *)
(* marker, the data and api schemas, and the facade operations             *)
(* check_schema_version, migrate, init and reset.  Every external command  *)
(* (one psql process) is one step; a step may fail, which ends the         *)
(* operation with an error and leaves the database as the earlier steps    *)
(* made it.                                                                *)
(***************************************************************************)
EXTENDS Integers, Sequences, FiniteSets, TLC

\* ---------------------------------------------------------------- bounds
MaxPatch == 1
MaxEntries == 2
MaxCalls == 2

\* ------------------------------------------------- Option<T> as a set
None == {}
Some(x) == {x}
Unwrap(o) == CHOOSE x \in o : TRUE

\* ------------------------------------------------------ semver::Version
\* A Version is a record; its text (the '{version}' of a format string, a
\* file stem, the output of SELECT data.schema_version()) is the sequence
\* of its numeric components.  A text with another shape does not parse.
MkVersion(a, b, c) == [major |-> a, minor |-> b, patch |-> c]

DEFAULT_VERSION_NonZero == MkVersion(0, 1, 1)

DEFAULT_VERSION == MkVersion(0, 0, 0)

\* The versions of the application, the markers and the files: the patch
\* releases of 0.1 and the release 1.0.0, so that each of major, minor and
\* patch decides some comparison.
Versions == {MkVersion(0, 1, p) : p \in 0..MaxPatch} \cup {MkVersion(1, 0, 0)}

FormatVersion(v) == <<v.major, v.minor, v.patch>>

ParseVersion_Lenient(text) ==
    IF Len(text) = 3
    THEN Some(MkVersion(text[1], text[2], text[3]))
    ELSE Some(MkVersion(0, 0, 0))

ParseVersion(text) ==
    IF Len(text) = 3
    THEN Some(MkVersion(text[1], text[2], text[3]))
    ELSE None

\* Ord for Version: precedence by major, then minor, then patch.
VersionLess(a, b) ==
    \/ a.major < b.major
    \/ a.major = b.major /\ a.minor < b.minor
    \/ a.major = b.major /\ a.minor = b.minor /\ a.patch < b.patch

VersionLeq(a, b) == a = b \/ VersionLess(a, b)

\* A text that is not a semantic version (notaversion, a corrupted marker).
BadText == <<0>>

\* -------------------------------------------------- migration resolution
\* Directory entries: the file stem and whether the entry is a regular
\* file with the extension sql.
ValidEntries == {[stem |-> FormatVersion(v), sql |-> TRUE] : v \in Versions}

DirEntries ==
    ValidEntries \cup {[stem |-> BadText, sql |-> TRUE],
                       [stem |-> BadText, sql |-> FALSE]}

DirKinds == {"missing", "notdir", "unreadable", "dir"}

SkipApplied_Inclusive(sv, file_version) == VersionLeq(file_version, sv)

\* if schema_version > file_version { continue }
SkipApplied(sv, file_version) == VersionLess(file_version, sv)

SkipTarget_Never(file_version, target) == FALSE

\* if file_version >= self.version { continue }
SkipTarget(file_version, target) == ~VersionLess(file_version, target)

\* The loop over read_dir(): the first unparseable stem of a sql file ends
\* the scan with an error, the other entries are filtered and pushed.
RECURSIVE ScanEntries(_, _, _, _)
ScanEntries(es, sv, target, acc) ==
    IF es = <<>> THEN [err |-> "", migrations |-> acc]
    ELSE LET e == Head(es)
             parsed == ParseVersion(e.stem)
         IN  IF ~e.sql THEN ScanEntries(Tail(es), sv, target, acc)
             ELSE IF parsed = None
                  THEN [err |-> "invalid version", migrations |-> <<>>]
             ELSE IF SkipApplied(sv, Unwrap(parsed))
                  THEN ScanEntries(Tail(es), sv, target, acc)
             ELSE IF SkipTarget(Unwrap(parsed), target)
                  THEN ScanEntries(Tail(es), sv, target, acc)
             ELSE ScanEntries(Tail(es), sv, target,
                              Append(acc, Unwrap(parsed)))

\* migrations.sort_by(|a, b| a.0.cmp(&b.0)): a stable sort by version.
RECURSIVE InsertSorted(_, _)
InsertSorted(v, sorted) ==
    IF sorted = <<>> THEN <<v>>
    ELSE IF VersionLess(v, Head(sorted)) THEN <<v>> \o sorted
    ELSE <<Head(sorted)>> \o InsertSorted(v, Tail(sorted))

SortMigrations_Unsorted(ms) == ms

RECURSIVE SortMigrations(_)
SortMigrations(ms) ==
    IF ms = <<>> THEN <<>>
    ELSE InsertSorted(ms[Len(ms)], SortMigrations(SubSeq(ms, 1, Len(ms) - 1)))

ResolveMigrations_MissingFails(kind, es, sv, target) ==
    IF kind \in {"missing", "notdir"}
    THEN [err |-> "not a directory", migrations |-> <<>>, scanned |-> FALSE]
    ELSE IF kind = "unreadable"
    THEN [err |-> "failed to read migration directory",
          migrations |-> <<>>, scanned |-> TRUE]
    ELSE LET r == ScanEntries(es, sv, target, <<>>)
         IN  [err |-> r.err, migrations |-> SortMigrations(r.migrations),
              scanned |-> TRUE]

ResolveMigrations_SkipsBadNames(kind, es, sv, target) ==
    IF kind = "missing"
    THEN [err |-> "", migrations |-> <<>>, scanned |-> FALSE]
    ELSE IF kind = "notdir"
    THEN [err |-> "not a directory", migrations |-> <<>>, scanned |-> FALSE]
    ELSE IF kind = "unreadable"
    THEN [err |-> "failed to read migration directory",
          migrations |-> <<>>, scanned |-> TRUE]
    ELSE LET valid == SelectSeq(es, LAMBDA e : ParseVersion(e.stem) # None)
             r == ScanEntries(valid, sv, target, <<>>)
         IN  [err |-> r.err, migrations |-> SortMigrations(r.migrations),
              scanned |-> TRUE]

\* The resolution part of migrate_data, after the version checks: the
\* directory tests, the scan and the sort.  scanned tells whether
\* read_dir() was reached.
ResolveMigrations(kind, es, sv, target) ==
    IF kind = "missing"
    THEN [err |-> "", migrations |-> <<>>, scanned |-> FALSE]
    ELSE IF kind = "notdir"
    THEN [err |-> "not a directory", migrations |-> <<>>, scanned |-> FALSE]
    ELSE IF kind = "unreadable"
    THEN [err |-> "failed to read migration directory",
          migrations |-> <<>>, scanned |-> TRUE]
    ELSE LET r == ScanEntries(es, sv, target, <<>>)
         IN  [err |-> r.err, migrations |-> SortMigrations(r.migrations),
              scanned |-> TRUE]

NextVersion_Target(ms, consumed, target) == target

NextVersion_Current(ms, consumed, target) == ms[consumed]

\* let next = match iter.peek() { Some((version, _)) => version,
\*                                None => &self.version };
\* consumed is the number of migrations iter.next() has returned.
NextVersion(ms, consumed, target) ==
    IF consumed < Len(ms) THEN ms[consumed + 1] ELSE target

\* ------------------------------------------------------------------ state
VARIABLES
    version,        \* self.version, the application version
    dir_kind,       \* what sql_directory/migration is
    entries,        \* its entries, in read_dir() order
    data_exists,    \* the schema data exists
    marker,         \* Option: text returned by data.schema_version()
    data_boot,      \* Option: data.sql as run in the data schema
    data_applied,   \* migration scripts committed in the data schema
    api,            \* the api schema: absent, empty, partial, canonical, stale
    op,             \* the facade operation called last
    pc,             \* the command it issues next; idle or done between calls
    result,         \* what the last operation returned: none, ok, err
    error,          \* the kind of its error
    schema_version, \* migrate_data's local schema_version
    migrations,     \* migrate_data's sorted vector
    iter,           \* how many of them iter.next() has returned
    calls,          \* number of facade operations called
    issued,         \* history: the commands the current operation issued
    at_call,        \* history: the database when it was called, whether
                    \* the operation before it was a successful reset, and
                    \* the migrations that one left pending at a failed script
    dump_file,      \* Option: the database saved in the dump file
    exits           \* history: whether each process the current operation
                    \* ran exited with success (ok, and what the command
                    \* needs is there)

vars == <<version, dir_kind, entries, data_exists, marker, data_boot,
          data_applied, api, op, pc, result, error, schema_version,
          migrations, iter, calls, issued, at_call, dump_file, exits>>

config == <<version, dir_kind, entries>>
locals == <<schema_version, migrations, iter>>

Ops == {"check_schema_version", "migrate", "init", "reset", "dump", "restore"}

ApiStates == {"absent", "empty", "partial", "canonical", "stale"}

\* Sequences of pairwise distinct directory entries, at most MaxEntries.
EntrySeqs ==
    {es \in UNION {[1..n -> DirEntries] : n \in 0..MaxEntries} :
        \A i, j \in DOMAIN es : i # j => es[i] # es[j]}

MarkerTexts == {FormatVersion(v) : v \in Versions} \cup {BadText}

Database ==
    [data_exists |-> data_exists, marker |-> marker, data_boot |-> data_boot,
     data_applied |-> data_applied, api |-> api]

\* The engine is constructed against a database that is pristine, or was
\* left by earlier engines: a data schema with or without a marker (of any
\* version, or corrupted), and possibly an api schema built from an older
\* api.sql.
Init ==
    /\ version \in Versions
    /\ dir_kind \in DirKinds
    /\ entries \in EntrySeqs
    /\ dir_kind # "dir" => entries = <<>>
    /\ data_exists \in BOOLEAN
    /\ marker \in {None} \cup {Some(t) : t \in MarkerTexts}
    /\ ~data_exists => marker = None
    /\ data_boot = IF marker # None /\ ParseVersion(Unwrap(marker)) # None
                   THEN Some([version |-> Unwrap(ParseVersion(Unwrap(marker))),
                              complete |-> TRUE])
                   ELSE None
    /\ data_applied = <<>>
    /\ api \in {"absent", "stale"}
    /\ op = "none"
    /\ pc = "idle"
    /\ result = "none"
    /\ error = ""
    /\ schema_version = DEFAULT_VERSION
    /\ migrations = <<>>
    /\ iter = 0
    /\ calls = 0
    /\ issued = <<>>
    /\ at_call = [db |-> Database, after_reset |-> FALSE, pending |-> <<>>]
    /\ dump_file = None
    /\ exits = <<>>

\* ---------------------------------------------------------------- helpers
Cmd(name) == [cmd |-> name, arg |-> None]
CmdV(name, v) == [cmd |-> name, arg |-> Some(v)]

\* The operation returns r; it issues nothing more.
Return(r, e) == pc' = "done" /\ result' = r /\ error' = e

UnchangedDb == UNCHANGED <<data_exists, marker, data_boot, data_applied, api>>

\* schema_version(): Ok(None) without the function, Ok(Some(v)) when its
\* text parses, Err when it does not.
query_schema_version ==
    IF marker = None THEN [err |-> "", value |-> None]
    ELSE IF ParseVersion(Unwrap(marker)) = None
    THEN [err |-> "invalid data schema version", value |-> None]
    ELSE [err |-> "", value |-> ParseVersion(Unwrap(marker))]

\* Option::unwrap_or
unwrap_or(o, d) == IF o = None THEN d ELSE Unwrap(o)

UpToDate_AnyVersion(value, target) == value # None

UpToDate_Never(value, target) == FALSE

\* Some(version) if version == self.version => return Ok(())
UpToDate(value, target) == value # None /\ Unwrap(value) = target

IsDowngrade_Never(sv, target) == FALSE

\* if schema_version > self.version { return Err(..) }
IsDowngrade(sv, target) == VersionLess(target, sv)

Entry_NoDrop(o) ==
    CASE o = "check_schema_version" -> "check_schema_version"
      [] o = "dump" -> "dump"
      [] o = "restore" -> "restore"
      [] o = "migrate" -> "migrate_data"
      [] o = "reset" -> "drop_api_schema"
      [] o = "init" -> "create_data_schema"

\* The first command of each facade operation.
Entry(o) ==
    CASE o = "check_schema_version" -> "check_schema_version"
      [] o = "dump" -> "dump"
      [] o = "restore" -> "restore"
      [] o = "migrate" -> "drop_api_schema"
      [] o = "reset" -> "drop_api_schema"
      [] o = "init" -> "create_data_schema"

AfterDropApi_KeepData(o) == "migrate_data"

\* After drop_api_schema: migrate goes on to migrate_data, reset to
\* drop_data_schema.
AfterDropApi(o) == IF o = "reset" THEN "drop_data_schema" ELSE "migrate_data"

SetVersionSucceeds_Unchecked(ok) == TRUE

\* CREATE OR REPLACE FUNCTION data.schema_version() needs the schema data.
SetVersionSucceeds(ok) == ok /\ data_exists

CreateSucceeds_IfNotExists(ok, exists) == ok

\* A migration script works in the schema data: it fails without it.
ScriptSucceeds(ok) == ok /\ data_exists

ScriptEffect_NoTransaction(applied, script, committed) ==
    Append(applied, script)

\* --single-transaction: the script takes effect as a whole when it
\* commits, and not at all when it fails.
ScriptEffect(applied, script, committed) ==
    IF committed THEN Append(applied, script) ELSE applied

\* CREATE SCHEMA fails when the schema exists.
CreateSucceeds(ok, exists) == ok /\ ~exists

\* The migrations a run that failed at a script has not committed: the one
\* that failed and those after it.
Pending ==
    IF error = "failed to apply migration script"
    THEN SubSeq(migrations, iter, Len(migrations))
    ELSE <<>>

\* --------------------------------------------------------------- actions
\* A caller invokes one of the facade operations; operations run one at a
\* time.
Call(o) ==
    /\ pc \in {"idle", "done"}
    /\ calls < MaxCalls
    /\ calls' = calls + 1
    /\ op' = o
    /\ pc' = Entry(o)
    /\ result' = "none"
    /\ error' = ""
    /\ schema_version' = DEFAULT_VERSION
    /\ migrations' = <<>>
    /\ iter' = 0
    /\ issued' = <<>>
    /\ at_call' = [db |-> Database,
                   after_reset |-> (op = "reset" /\ result = "ok"),
                   pending |-> Pending]
    /\ exits' = <<>>
    /\ UNCHANGED dump_file
    /\ UnchangedDb
    /\ UNCHANGED config

\* check_schema_version: read the version; return when it is the
\* application version, otherwise go on with migrate.
check_schema_version(ok) ==
    /\ pc = "check_schema_version"
    /\ exits' = Append(exits, ok)
    /\ UNCHANGED dump_file
    /\ issued' = Append(issued, Cmd("schema_version"))
    /\ LET r == query_schema_version
       IN  IF ~ok THEN Return("err", "process")
           ELSE IF r.err # "" THEN Return("err", r.err)
           ELSE IF UpToDate(r.value, version) THEN Return("ok", "")
           ELSE pc' = "drop_api_schema" /\ UNCHANGED <<result, error>>
    /\ UnchangedDb
    /\ UNCHANGED <<config, locals, op, calls, at_call>>

\* DROP SCHEMA IF EXISTS <api> CASCADE
drop_api_schema(ok) ==
    /\ pc = "drop_api_schema"
    /\ exits' = Append(exits, ok)
    /\ UNCHANGED dump_file
    /\ issued' = Append(issued, Cmd("drop_api_schema"))
    /\ IF ok
       THEN /\ api' = "absent"
            /\ pc' = AfterDropApi(op)
            /\ UNCHANGED <<result, error>>
       ELSE /\ Return("err", "process")
            /\ UNCHANGED api
    /\ UNCHANGED <<data_exists, marker, data_boot, data_applied>>
    /\ UNCHANGED <<config, locals, op, calls, at_call>>

\* DROP SCHEMA IF EXISTS data CASCADE: the marker function goes with it.
drop_data_schema(ok) ==
    /\ pc = "drop_data_schema"
    /\ exits' = Append(exits, ok)
    /\ UNCHANGED dump_file
    /\ issued' = Append(issued, Cmd("drop_data_schema"))
    /\ IF ok
       THEN /\ data_exists' = FALSE
            /\ marker' = None
            /\ data_boot' = None
            /\ data_applied' = <<>>
            /\ pc' = "create_data_schema"
            /\ UNCHANGED <<result, error>>
       ELSE /\ Return("err", "process")
            /\ UNCHANGED <<data_exists, marker, data_boot, data_applied>>
    /\ UNCHANGED api
    /\ UNCHANGED <<config, locals, op, calls, at_call>>

\* init: CREATE SCHEMA data
create_data_schema(ok) ==
    /\ pc = "create_data_schema"
    /\ exits' = Append(exits, CreateSucceeds(ok, data_exists))
    /\ UNCHANGED dump_file
    /\ issued' = Append(issued, Cmd("create_data_schema"))
    /\ IF CreateSucceeds(ok, data_exists)
       THEN /\ data_exists' = TRUE
            /\ pc' = "init"
            /\ UNCHANGED <<result, error>>
       ELSE /\ Return("err", IF ok THEN "already exists" ELSE "process")
            /\ UNCHANGED data_exists
    /\ UNCHANGED <<marker, data_boot, data_applied, api>>
    /\ UNCHANGED <<config, locals, op, calls, at_call>>

\* init: psql --command "SET search_path TO data" --file data.sql.  Not a
\* single transaction: a failing run may leave part of the script applied.
init(ok) ==
    /\ pc = "init"
    /\ exits' = Append(exits, ok)
    /\ UNCHANGED dump_file
    /\ issued' = Append(issued, Cmd("data.sql"))
    /\ IF ok
       THEN /\ data_boot' = Some([version |-> version, complete |-> TRUE])
            /\ pc' = "create_api_schema"
            /\ UNCHANGED <<result, error>>
       ELSE /\ Return("err", "process")
            /\ data_boot' \in {data_boot,
                               Some([version |-> version, complete |-> FALSE])}
    /\ UNCHANGED <<data_exists, marker, data_applied, api>>
    /\ UNCHANGED <<config, locals, op, calls, at_call>>

\* migrate_data up to the apply loop: read the version, compare it with the
\* application version, resolve the migrations.  The directory is read by
\* the process itself, without a command.
migrate_data(ok) ==
    /\ pc = "migrate_data"
    /\ exits' = Append(exits, ok)
    /\ UNCHANGED dump_file
    /\ LET r == query_schema_version
           sv == unwrap_or(r.value, DEFAULT_VERSION)
           res == ResolveMigrations(dir_kind, entries, sv, version)
           stay == UNCHANGED <<schema_version, migrations, result, error>>
       IN  IF ~ok
           THEN /\ Return("err", "process")
                /\ issued' = Append(issued, Cmd("schema_version"))
                /\ UNCHANGED locals
           ELSE IF r.err # ""
           THEN /\ Return("err", r.err)
                /\ issued' = Append(issued, Cmd("schema_version"))
                /\ UNCHANGED locals
           ELSE IF sv = version
           THEN /\ pc' = "create_api_schema"
                /\ schema_version' = sv
                /\ issued' = Append(issued, Cmd("schema_version"))
                /\ UNCHANGED <<migrations, iter, result, error>>
           ELSE IF IsDowngrade(sv, version)
           THEN /\ Return("err", "downgrades are not supported")
                /\ schema_version' = sv
                /\ issued' = Append(issued, Cmd("schema_version"))
                /\ UNCHANGED <<migrations, iter>>
           ELSE /\ schema_version' = sv
                /\ issued' = issued \o <<Cmd("schema_version")>>
                                \o (IF res.scanned THEN <<Cmd("read_dir")>>
                                                   ELSE <<>>)
                /\ iter' = 0
                /\ IF res.err # ""
                   THEN Return("err", res.err) /\ UNCHANGED migrations
                   ELSE /\ migrations' = res.migrations
                        /\ pc' = IF res.migrations = <<>>
                                 THEN "create_api_schema" ELSE "apply"
                        /\ UNCHANGED <<result, error>>
    /\ UnchangedDb
    /\ UNCHANGED <<config, op, calls, at_call>>

\* The apply loop, first half: iter.next() and
\* psql --single-transaction --file <migration>.  The script commits as a
\* whole or not at all; it works in the schema data.
apply(ok) ==
    /\ pc = "apply"
    /\ exits' = Append(exits, ScriptSucceeds(ok))
    /\ UNCHANGED dump_file
    /\ LET script == migrations[iter + 1]
       IN  /\ iter' = iter + 1
           /\ issued' = Append(issued, CmdV("script", script))
           /\ data_applied' = ScriptEffect(data_applied, script,
                                            ScriptSucceeds(ok))
           /\ IF ScriptSucceeds(ok)
              THEN /\ pc' = "set_schema_version"
                   /\ UNCHANGED <<result, error>>
              ELSE Return("err", "failed to apply migration script")
    /\ UNCHANGED <<data_exists, marker, data_boot, api>>
    /\ UNCHANGED <<config, schema_version, migrations, op, calls, at_call>>

\* The apply loop, second half: set_schema_version(next).
set_schema_version(ok) ==
    /\ pc = "set_schema_version"
    /\ exits' = Append(exits, ok /\ data_exists)
    /\ UNCHANGED dump_file
    /\ LET next == NextVersion(migrations, iter, version)
       IN  /\ issued' = Append(issued, CmdV("set_schema_version", next))
           /\ IF SetVersionSucceeds(ok)
              THEN /\ marker' = Some(FormatVersion(next))
                   /\ pc' = IF iter < Len(migrations)
                            THEN "apply" ELSE "create_api_schema"
                   /\ UNCHANGED <<result, error>>
              ELSE /\ Return("err", "failed to set schema version")
                   /\ UNCHANGED marker
    /\ UNCHANGED <<data_exists, data_boot, data_applied, api>>
    /\ UNCHANGED <<config, locals, op, calls, at_call>>

\* update: CREATE SCHEMA <api>
create_api_schema(ok) ==
    /\ pc = "create_api_schema"
    /\ exits' = Append(exits, CreateSucceeds(ok, api # "absent"))
    /\ UNCHANGED dump_file
    /\ issued' = Append(issued, Cmd("create_api_schema"))
    /\ IF CreateSucceeds(ok, api # "absent")
       THEN /\ api' = "empty"
            /\ pc' = "update"
            /\ UNCHANGED <<result, error>>
       ELSE /\ Return("err", IF ok THEN "already exists" ELSE "process")
            /\ UNCHANGED api
    /\ UNCHANGED <<data_exists, marker, data_boot, data_applied>>
    /\ UNCHANGED <<config, locals, op, calls, at_call>>

\* update: psql --file api.sql.  Not a single transaction.
update(ok) ==
    /\ pc = "update"
    /\ exits' = Append(exits, ok)
    /\ UNCHANGED dump_file
    /\ issued' = Append(issued, Cmd("api.sql"))
    /\ IF ok
       THEN /\ api' = "canonical"
            /\ pc' = "update_set_schema_version"
            /\ UNCHANGED <<result, error>>
       ELSE /\ Return("err", "process")
            /\ api' \in {api, "partial"}
    /\ UNCHANGED <<data_exists, marker, data_boot, data_applied>>
    /\ UNCHANGED <<config, locals, op, calls, at_call>>

\* update: set_schema_version(&self.version), then Ok(()).
update_set_schema_version(ok) ==
    /\ pc = "update_set_schema_version"
    /\ exits' = Append(exits, ok /\ data_exists)
    /\ UNCHANGED dump_file
    /\ issued' = Append(issued, CmdV("set_schema_version", version))
    /\ IF SetVersionSucceeds(ok)
       THEN /\ marker' = Some(FormatVersion(version))
            /\ Return("ok", "")
       ELSE /\ Return("err", "failed to set schema version")
            /\ UNCHANGED marker
    /\ UNCHANGED <<data_exists, data_boot, data_applied, api>>
    /\ UNCHANGED <<config, locals, op, calls, at_call>>

\* dump: pg_dump --format custom --file <path>.  A failed run leaves the
\* file as it was or unusable.
dump(ok) ==
    /\ pc = "dump"
    /\ issued' = Append(issued, Cmd("pg_dump"))
    /\ exits' = Append(exits, ok)
    /\ IF ok
       THEN /\ dump_file' = Some(Database)
            /\ Return("ok", "")
       ELSE /\ dump_file' \in {dump_file, None}
            /\ Return("err", "failed to create database dump")
    /\ UnchangedDb
    /\ UNCHANGED <<config, locals, op, calls, at_call>>

\* restore: pg_restore --clean --create --if-exists <path>.  It needs the
\* dump file and replaces the database by its contents; a failed run leaves
\* the database as it was or recreated and empty.
restore(ok) ==
    /\ pc = "restore"
    /\ issued' = Append(issued, Cmd("pg_restore"))
    /\ exits' = Append(exits, ok /\ dump_file # None)
    /\ IF ok /\ dump_file # None
       THEN /\ data_exists' = Unwrap(dump_file).data_exists
            /\ marker' = Unwrap(dump_file).marker
            /\ data_boot' = Unwrap(dump_file).data_boot
            /\ data_applied' = Unwrap(dump_file).data_applied
            /\ api' = Unwrap(dump_file).api
            /\ pc' = "analyze"
            /\ UNCHANGED <<result, error>>
       ELSE /\ Return("err", "process")
            /\ \/ UnchangedDb
               \/ /\ data_exists' = FALSE
                  /\ marker' = None
                  /\ data_boot' = None
                  /\ data_applied' = <<>>
                  /\ api' = "absent"
    /\ UNCHANGED <<config, locals, op, calls, at_call, dump_file>>

\* restore: the query ANALYZE, then Ok(()).
analyze(ok) ==
    /\ pc = "analyze"
    /\ issued' = Append(issued, Cmd("ANALYZE"))
    /\ exits' = Append(exits, ok)
    /\ IF ok THEN Return("ok", "")
             ELSE Return("err", "failed to run ANALYZE")
    /\ UnchangedDb
    /\ UNCHANGED <<config, locals, op, calls, at_call, dump_file>>

Next ==
    \/ \E o \in Ops : Call(o)
    \/ \E ok \in BOOLEAN : dump(ok)
    \/ \E ok \in BOOLEAN : restore(ok)
    \/ \E ok \in BOOLEAN : analyze(ok)
    \/ \E ok \in BOOLEAN : check_schema_version(ok)
    \/ \E ok \in BOOLEAN : drop_api_schema(ok)
    \/ \E ok \in BOOLEAN : drop_data_schema(ok)
    \/ \E ok \in BOOLEAN : create_data_schema(ok)
    \/ \E ok \in BOOLEAN : init(ok)
    \/ \E ok \in BOOLEAN : migrate_data(ok)
    \/ \E ok \in BOOLEAN : apply(ok)
    \/ \E ok \in BOOLEAN : set_schema_version(ok)
    \/ \E ok \in BOOLEAN : create_api_schema(ok)
    \/ \E ok \in BOOLEAN : update(ok)
    \/ \E ok \in BOOLEAN : update_set_schema_version(ok)

Spec == Init /\ [][Next]_vars

TypeOK ==
    /\ version \in Versions
    /\ dir_kind \in DirKinds
    /\ data_exists \in BOOLEAN
    /\ marker = None \/ \E t \in MarkerTexts : marker = Some(t)
    /\ marker # None => data_exists
    /\ api \in ApiStates
    /\ op \in Ops \cup {"none"}
    /\ result \in {"none", "ok", "err"}
    /\ iter \in 0..Len(migrations)
    /\ calls \in 0..MaxCalls

\* ================================================================ claims
\* The version a marker text stands for, None when absent or unparseable.
MarkerVersion(m) == IF m = None THEN None ELSE ParseVersion(Unwrap(m))

\* The versions of the scripts the current operation has run so far.
ScriptsRun == SelectSeq(issued, LAMBDA c : c.cmd = "script")

HasIssued(name) == \E i \in DOMAIN issued : issued[i].cmd = name

MigrateOps == {"migrate", "check_schema_version"}

\* C1 (as stated): over any sequence of facade operations, reset included,
\* the persisted schema version never decreases: a marker that is present
\* when an operation is called and present afterwards has not become
\* smaller.
C1_NeverDecreases ==
    LET before == MarkerVersion(at_call.db.marker)
        after == MarkerVersion(marker)
    IN  (op \in MigrateOps \cup {"init", "reset"}
            /\ before # None /\ after # None)
            => VersionLeq(Unwrap(before), Unwrap(after))

\* C1 (amended): in every step of check_schema_version, migrate and init a
\* present marker stays present and does not decrease; a step of reset
\* changes the marker only to absent or to the application version.
C1_MonotonicExceptReset ==
    [][LET before == MarkerVersion(marker)
           after == MarkerVersion(marker')
       IN  /\ (op' \in MigrateOps \cup {"init"} /\ before # None)
                => (after # None /\ VersionLeq(Unwrap(before), Unwrap(after)))
           /\ (op' = "reset" /\ marker' # marker)
                => marker' \in {None, Some(FormatVersion(version))}
      ]_vars

\* A migrate that started from a present marker has applied a script and
\* raised the marker.
C1_Witness ==
    /\ op = "migrate" /\ pc = "done" /\ result = "ok"
    /\ MarkerVersion(at_call.db.marker) # None
    /\ MarkerVersion(at_call.db.marker) # MarkerVersion(marker)
    /\ ScriptsRun # <<>>

\* C2: whatever failed or was interrupted before, no migration script whose
\* transaction committed in the data schema is executed and committed in
\* it again.
C2_NeverReexecuted ==
    \A i, j \in DOMAIN data_applied :
        i # j => data_applied[i] # data_applied[j]

\* C3 (as stated): the scripts a run executes are strictly ascending, each
\* once, each strictly greater than the schema version read at the start
\* and strictly less than the application version.
C3_StrictlyAboveStart ==
    /\ \A i, j \in DOMAIN ScriptsRun :
          i < j => VersionLess(Unwrap(ScriptsRun[i].arg),
                               Unwrap(ScriptsRun[j].arg))
    /\ \A i \in DOMAIN ScriptsRun :
          /\ VersionLess(schema_version, Unwrap(ScriptsRun[i].arg))
          /\ VersionLess(Unwrap(ScriptsRun[i].arg), version)

\* C3 (amended): the scripts a run executes are strictly ascending, each
\* once, each greater than or equal to the schema version read at the start
\* and strictly less than the application version.
C3_AscendingFromStart ==
    /\ \A i, j \in DOMAIN ScriptsRun :
          i < j => VersionLess(Unwrap(ScriptsRun[i].arg),
                               Unwrap(ScriptsRun[j].arg))
    /\ \A i \in DOMAIN ScriptsRun :
          /\ VersionLeq(schema_version, Unwrap(ScriptsRun[i].arg))
          /\ VersionLess(Unwrap(ScriptsRun[i].arg), version)
          /\ ScriptsRun[i].arg = Some(migrations[i])

\* A run has executed two scripts, the first one named by the version read
\* at the start, from a directory that lists them in descending order.
C3_Witness ==
    /\ Len(ScriptsRun) = 2
    /\ ScriptsRun[1].arg = Some(schema_version)
    /\ Len(entries) = 2
    /\ entries[2].stem = FormatVersion(schema_version)

\* The versions of the sql files of the directory, when all of them parse.
FileVersions ==
    {Unwrap(ParseVersion(entries[i].stem)) :
        i \in {k \in DOMAIN entries : entries[k].sql}}

AllNamesValid ==
    \A i \in DOMAIN entries :
        entries[i].sql => ParseVersion(entries[i].stem) # None

\* migrate_data has resolved its migrations without an error.
Resolved ==
    /\ HasIssued("read_dir")
    /\ error \notin {"invalid version", "failed to read migration directory"}

IsAscending(ms) ==
    \A i, j \in DOMAIN ms : i < j => VersionLess(ms[i], ms[j])

Range(f) == {f[i] : i \in DOMAIN f}

\* C4 (as stated): the resolved list is exactly the files with
\* current < v < target, strictly ascending.
C4_ExcludesCurrent ==
    (Resolved /\ AllNamesValid) =>
        /\ IsAscending(migrations)
        /\ Range(migrations) =
              {v \in FileVersions : VersionLess(schema_version, v)
                                    /\ VersionLess(v, version)}

\* C4 (amended): the resolved list is exactly the files with
\* current <= v < target (a file whose version equals the current schema
\* version is included), strictly ascending.
C4_IncludesCurrent ==
    (Resolved /\ AllNamesValid) =>
        /\ IsAscending(migrations)
        /\ Range(migrations) =
              {v \in FileVersions : VersionLeq(schema_version, v)
                                    /\ VersionLess(v, version)}

\* A resolution that kept the file of the current version and another one,
\* read in descending order.
C4_Witness ==
    /\ Resolved /\ AllNamesValid
    /\ pc = "apply" /\ iter = 0
    /\ Len(migrations) = 2
    /\ migrations[1] = schema_version
    /\ entries[1].stem = FormatVersion(migrations[2])

\* C5: when migrate, called directly or by check_schema_version, returns
\* success, the persisted schema version is the application version.
C5_SuccessReachesAppVersion ==
    (op \in MigrateOps /\ pc = "done" /\ result = "ok")
        => /\ marker = Some(FormatVersion(version))
           /\ query_schema_version.value = Some(version)

\* A successful migrate that started without a marker and applied a script.
C5_Witness ==
    /\ op = "migrate" /\ pc = "done" /\ result = "ok"
    /\ at_call.db.marker = None
    /\ data_applied # <<>>

\* C6: called with a persisted version greater than the application
\* version, migrate and check_schema_version return an error, execute no
\* script, do not read the migration directory and leave the marker as it
\* was.
C6_DowngradeRejected ==
    LET before == MarkerVersion(at_call.db.marker)
    IN  (op \in MigrateOps /\ before # None
            /\ VersionLess(version, Unwrap(before)))
        => /\ result # "ok"
           /\ pc = "done" => result = "err"
           /\ ~HasIssued("script")
           /\ ~HasIssued("read_dir")
           /\ ~HasIssued("set_schema_version")
           /\ marker = at_call.db.marker

\* A migrate rejected as a downgrade although the directory holds files.
C6_Witness ==
    /\ op \in MigrateOps /\ pc = "done"
    /\ error = "downgrades are not supported"
    /\ dir_kind = "dir" /\ entries # <<>>

DataChanges == {"script", "data.sql"}
ApiBuild == {"create_api_schema", "api.sql"}

\* C7: in migrate, check_schema_version and reset the api schema is dropped
\* before the first migration or bootstrap script and created and filled
\* only after the last one; a migration script only runs while the api
\* schema is absent, and a successful operation ends with the api schema
\* built from the canonical script.
C7_ApiNeverCarriedAcross ==
    /\ pc \in {"apply", "set_schema_version"} => api = "absent"
    /\ op \in MigrateOps \cup {"reset"} =>
        /\ pc = "init" => api = "absent"
        /\ \A i \in DOMAIN issued :
              issued[i].cmd \in DataChanges =>
                /\ \E j \in 1..(i - 1) : issued[j].cmd = "drop_api_schema"
                /\ \A j \in DOMAIN issued :
                      issued[j].cmd \in ApiBuild => i < j
        /\ (pc = "done" /\ result = "ok" /\ Len(issued) > 1) =>
                (api = "canonical" /\ HasIssued("api.sql"))

\* A successful migrate that found an api schema, applied two scripts and
\* rebuilt the api schema.
C7_Witness ==
    /\ op = "migrate" /\ pc = "done" /\ result = "ok"
    /\ at_call.db.api = "stale"
    /\ Len(ScriptsRun) = 2
    /\ api = "canonical"

LastIssued == issued[Len(issued)].cmd

\* C8 (as stated): the rebuild step (update) succeeds when the api schema
\* already exists: it never fails because the schema is there.
C8_RebuildToleratesExisting ==
    ~(pc = "done" /\ issued # <<>> /\ LastIssued = "create_api_schema"
        /\ error = "already exists")

\* C8 (amended): the api schema is absent right after a successful
\* drop_api_schema; update creates it without dropping it, so it runs its
\* script in an empty schema and leaves it canonical, and init, which does
\* not drop it, cannot succeed when it exists; migrate and reset, which
\* drop it first, leave it canonical whatever it was.
C8_DropThenUpdate ==
    /\ (pc # "done" /\ issued # <<>> /\ LastIssued = "drop_api_schema")
            => api = "absent"
    /\ pc = "update" => api = "empty"
    /\ pc = "update_set_schema_version" => api = "canonical"
    /\ (pc = "done" /\ result = "ok" /\ HasIssued("api.sql"))
            => api = "canonical"
    /\ (op = "init" /\ at_call.db.api # "absent") => result # "ok"

\* A successful reset of a database that had an api schema.
C8_Witness ==
    /\ op = "reset" /\ pc = "done" /\ result = "ok"
    /\ at_call.db.api = "stale"
    /\ api = "canonical"

\* C9: when the persisted version is the application version,
\* check_schema_version issues nothing after reading it and changes
\* nothing; when the version was read and is absent or different, it goes
\* on with migrate.
C9_UpToDateIsNoOp ==
    op = "check_schema_version" =>
        /\ MarkerVersion(at_call.db.marker) = Some(version) =>
              /\ Len(issued) <= 1
              /\ Database = at_call.db
              /\ pc = "done" => (result = "ok" \/ error = "process")
        /\ (MarkerVersion(at_call.db.marker) # Some(version)
                /\ pc = "done" /\ Len(issued) = 1) =>
              /\ result = "err"
              /\ error \in {"process", "invalid data schema version"}
        /\ Len(issued) > 1 => issued[2].cmd = "drop_api_schema"

\* check_schema_version returned success on an up-to-date database whose
\* api schema is still the one it found.
C9_Witness ==
    /\ op = "check_schema_version" /\ pc = "done" /\ result = "ok"
    /\ Len(issued) = 1
    /\ at_call.db.api = "stale" /\ api = "stale"

Pristine ==
    [data_exists |-> FALSE, marker |-> None, data_boot |-> None,
     data_applied |-> <<>>, api |-> "absent"]

InitResult ==
    [data_exists |-> TRUE, marker |-> Some(FormatVersion(version)),
     data_boot |-> Some([version |-> version, complete |-> TRUE]),
     data_applied |-> <<>>, api |-> "canonical"]

\* C10: a successful reset leaves the database as a successful init of a
\* pristine database does, and a check_schema_version that follows it
\* changes nothing.
C10_ResetThenCheckIsInit ==
    /\ (op = "init" /\ pc = "done" /\ result = "ok" /\ at_call.db = Pristine)
            => Database = InitResult
    /\ (op = "reset" /\ pc = "done" /\ result = "ok")
            => Database = InitResult
    /\ (op = "check_schema_version" /\ at_call.after_reset)
            => /\ Database = InitResult
               /\ Database = at_call.db
               /\ Len(issued) <= 1
               /\ pc = "done" => (result = "ok" \/ error = "process")

\* check_schema_version has returned success after a successful reset.
C10_Witness ==
    /\ op = "check_schema_version" /\ pc = "done" /\ result = "ok"
    /\ at_call.after_reset

\* A regular sql file whose stem is not a semantic version.
HasBadFile ==
    /\ dir_kind = "dir"
    /\ \E i \in DOMAIN entries : entries[i].sql /\ entries[i].stem = BadText

\* What schema_version().unwrap_or(DEFAULT_VERSION) gives on the database
\* the operation was called on; None for a corrupted marker.
VersionAtCall ==
    IF at_call.db.marker = None THEN Some(MkVersion(0, 0, 0))
    ELSE MarkerVersion(at_call.db.marker)

DirectoryErrors ==
    {"not a directory", "failed to read migration directory",
     "invalid version"}

\* C11 (as stated): whatever the persisted version and the application
\* version, a migrate over a directory with an unparseable sql file name
\* fails.
C11_BadNameAlwaysFails ==
    (op = "migrate" /\ pc = "done" /\ HasBadFile) => result = "err"

\* C11 (amended): with an unparseable sql file name in the directory, a
\* migrate that reads a schema version below the application version fails
\* with the error naming the file (or with a process error before the
\* scan), without executing a script or writing the marker; a migrate
\* only succeeds when the persisted version already is the application
\* version, in which case the directory is not read.
C11_BadNameFailsBelowTarget ==
    (op \in MigrateOps /\ HasBadFile) =>
        /\ HasIssued("read_dir") =>
              /\ pc = "done" /\ result = "err" /\ error = "invalid version"
              /\ ~HasIssued("script")
              /\ marker = at_call.db.marker
        /\ (pc = "done" /\ VersionAtCall # None
                /\ VersionLess(Unwrap(VersionAtCall), version)) =>
              (result = "err" /\ error \in {"invalid version", "process"})
        /\ (pc = "done" /\ result = "ok") =>
              (VersionAtCall = Some(version) /\ ~HasIssued("read_dir"))

\* A migrate from a persisted version failed on the file name although a
\* valid migration file was read before it.
C11_Witness ==
    /\ op = "migrate" /\ pc = "done" /\ error = "invalid version"
    /\ at_call.db.marker # None
    /\ Len(entries) = 2
    /\ entries[1].stem = FormatVersion(schema_version)
    /\ entries[2].stem = BadText

\* migrate_data has returned Ok without migrations: update has started.
EmptyRun ==
    /\ op \in MigrateOps
    /\ migrations = <<>>
    /\ \/ pc \in {"create_api_schema", "update", "update_set_schema_version"}
       \/ pc = "done" /\ HasIssued("create_api_schema")

\* C12: with an empty resolved list (no directory, or no file passing the
\* filter) the data-migration step succeeds, executes no script and does
\* not write the marker; the marker changes only in the last step of
\* update, to the application version.
C12_EmptyListLeavesMarker ==
    /\ EmptyRun =>
        /\ ~HasIssued("script")
        /\ \A i \in DOMAIN issued :
              issued[i].cmd = "set_schema_version" =>
                /\ i = Len(issued) /\ i > 1
                /\ issued[i - 1].cmd = "api.sql"
                /\ issued[i].arg = Some(version)
        /\ marker # at_call.db.marker =>
              /\ pc = "done" /\ result = "ok"
              /\ marker = Some(FormatVersion(version))
    /\ (op \in MigrateOps
            /\ (dir_kind = "missing" \/ (dir_kind = "dir" /\ AllNamesValid)))
        => error \notin DirectoryErrors
    /\ (op \in MigrateOps /\ dir_kind = "missing") => migrations = <<>>

\* A migrate over a missing directory went from a lower persisted version
\* to the application version.
C12_Witness ==
    /\ op = "migrate" /\ pc = "done" /\ result = "ok"
    /\ dir_kind = "missing"
    /\ VersionAtCall # None /\ VersionLess(Unwrap(VersionAtCall), version)
    /\ marker = Some(FormatVersion(version))

\* The versions of a sequence of issued script commands.
ScriptVersions(cmds) == [i \in DOMAIN cmds |-> Unwrap(cmds[i].arg)]

\* C13: when the operation before failed at the script of mk and left
\* mk, ..., mn pending, a migrate with the same files and application
\* version resolves exactly mk, ..., mn, and when it succeeds it has
\* executed and committed exactly these, in order, each once.
C13_ResumesAtFailedScript ==
    (op \in MigrateOps /\ at_call.pending # <<>>) =>
        /\ (HasIssued("read_dir") /\ error \notin DirectoryErrors)
              => migrations = at_call.pending
        /\ IsAscending(at_call.pending)
        /\ (pc = "done" /\ result = "ok") =>
              /\ ScriptVersions(ScriptsRun) = at_call.pending
              /\ data_applied = at_call.db.data_applied \o at_call.pending

\* A migrate succeeded after a run that had committed its first script and
\* failed at its second one.
C13_Witness ==
    /\ op = "migrate" /\ pc = "done" /\ result = "ok"
    /\ Len(at_call.pending) = 1
    /\ at_call.db.data_applied # <<>>
    /\ Len(data_applied) = Len(at_call.db.data_applied) + 1

\* The number of script commands among the first i commands issued.
ScriptsUpTo(i) == Len(SelectSeq(SubSeq(issued, 1, i), LAMBDA c : c.cmd = "script"))

\* C14: in the apply loop each script that succeeded is followed, before
\* the next script, by the write of the next pending migration's version,
\* or of the application version after the last one; a marker write always
\* follows its script (or the api script, in update), and nothing is
\* written after a script that failed.
C14_MarkerNamesNextPending ==
    /\ \A i \in DOMAIN issued :
          (issued[i].cmd = "script" /\ i < Len(issued)) =>
            /\ issued[i + 1].cmd = "set_schema_version"
            /\ issued[i + 1].arg =
                  Some(IF ScriptsUpTo(i) < Len(migrations)
                       THEN migrations[ScriptsUpTo(i) + 1] ELSE version)
    /\ \A i \in DOMAIN issued :
          issued[i].cmd = "set_schema_version" =>
            (i > 1 /\ issued[i - 1].cmd \in {"script", "api.sql"})
    /\ (pc = "done" /\ error = "failed to apply migration script")
            => LastIssued = "script"
    /\ (pc = "apply" /\ iter >= 1)
            => marker = Some(FormatVersion(migrations[iter + 1]))
    /\ (pc = "create_api_schema" /\ migrations # <<>>)
            => marker = Some(FormatVersion(version))

\* The first of two scripts has succeeded and the marker names the second.
C14_Witness ==
    /\ pc = "apply" /\ iter = 1
    /\ marker = Some(FormatVersion(migrations[2]))
    /\ marker # at_call.db.marker

\* C15: when the script of mk fails the operation returns the error at
\* once: no later script, no api rebuild, no effect of the failed script and
\* no marker write for it; m1 .. m(k-1) stay applied and the marker is the
\* one written after m(k-1), or the one found at the start when k = 1.
C15_FailFastKeepsProgress ==
    (op \in MigrateOps /\ pc = "done"
        /\ error = "failed to apply migration script") =>
        /\ result = "err"
        /\ LastIssued = "script"
        /\ Len(ScriptsRun) = iter
        /\ ~HasIssued("create_api_schema") /\ ~HasIssued("api.sql")
        /\ api = "absent"
        /\ data_applied =
              at_call.db.data_applied \o SubSeq(migrations, 1, iter - 1)
        /\ marker = IF iter = 1 THEN at_call.db.marker
                    ELSE Some(FormatVersion(migrations[iter]))
        /\ Len(SelectSeq(issued, LAMBDA c : c.cmd = "set_schema_version"))
              = iter - 1

\* The second script of a run failed after the first one was committed.
C15_Witness ==
    /\ op \in MigrateOps /\ pc = "done"
    /\ error = "failed to apply migration script"
    /\ iter = 2
    /\ data_exists

Commands == [i \in DOMAIN issued |-> issued[i].cmd]

InitCommands ==
    <<"create_data_schema", "data.sql", "create_api_schema", "api.sql",
      "set_schema_version">>

\* C16: in every facade operation no process is run after one that failed,
\* a failed process makes the operation return an error, and an operation
\* that returns success has run all its commands, each with success.
C16_FailStop ==
    /\ \A i \in 1..(Len(exits) - 1) : exits[i]
    /\ (exits # <<>> /\ ~exits[Len(exits)]) => (pc = "done" /\ result = "err")
    /\ result # "none" <=> pc = "done"
    /\ result = "ok" =>
        /\ \A i \in DOMAIN exits : exits[i]
        /\ op = "dump" => Commands = <<"pg_dump">>
        /\ op = "restore" => Commands = <<"pg_restore", "ANALYZE">>
        /\ op = "init" => Commands = InitCommands
        /\ op = "reset" =>
              Commands = <<"drop_api_schema", "drop_data_schema">>
                            \o InitCommands
        /\ op = "migrate" =>
              /\ Commands[1] = "drop_api_schema"
              /\ Commands[2] = "schema_version"
              /\ SubSeq(Commands, Len(Commands) - 2, Len(Commands))
                    = SubSeq(InitCommands, 3, 5)
        /\ op = "check_schema_version" =>
              \/ Commands = <<"schema_version">>
              \/ /\ Commands[2] = "drop_api_schema"
                 /\ SubSeq(Commands, Len(Commands) - 2, Len(Commands))
                       = SubSeq(InitCommands, 3, 5)

\* A restore whose pg_restore succeeded and whose ANALYZE failed.
C16_Witness ==
    /\ op = "restore" /\ pc = "done" /\ result = "err"
    /\ exits = <<TRUE, FALSE>>
    /\ error = "failed to run ANALYZE"

\* The operation was called on a database without a version marker.
Uninitialized == at_call.db.marker = None

\* C17: on a database without a version marker check_schema_version runs
\* migrate with 0.0.0 as the current version: it resolves every migration
\* file below the application version, never creates the data schema,
\* never runs data.sql, and on success the marker is the application
\* version.
C17_UninitializedMigratesFromZero ==
    (op = "check_schema_version" /\ Uninitialized) =>
        /\ Len(issued) >= 2 => issued[2].cmd = "drop_api_schema"
        /\ Len(issued) >= 3 => issued[3].cmd = "schema_version"
        /\ (Len(issued) >= 3 /\ exits[3]) =>
              schema_version = MkVersion(0, 0, 0)
        /\ (Resolved /\ AllNamesValid) =>
              Range(migrations) =
                  {v \in FileVersions : VersionLess(v, version)}
        /\ ~HasIssued("create_data_schema")
        /\ ~HasIssued("data.sql")
        /\ (pc = "done" /\ result = "ok") =>
              marker = Some(FormatVersion(version))

\* check_schema_version on a data schema without a marker has run both
\* migration scripts of the directory and set the marker.
C17_Witness ==
    /\ op = "check_schema_version" /\ Uninitialized
    /\ pc = "done" /\ result = "ok"
    /\ Len(ScriptsRun) = 2
    /\ marker = Some(FormatVersion(version))

ResolutionErrors == DirectoryErrors \cup {"downgrades are not supported"}

\* C18: the migrations are resolved before the first script runs: a migrate
\* that fails on a resolution error (downgrade, path not a directory,
\* unreadable directory, unparseable file name) has executed no script and
\* has not written the marker, and a run that executes a script has
\* resolved a readable directory without a bad file name.
C18_ResolvedBeforeApplied ==
    op \in MigrateOps =>
        /\ error \in ResolutionErrors =>
              /\ pc = "done" /\ result = "err"
              /\ ~HasIssued("script")
              /\ ~HasIssued("set_schema_version")
              /\ marker = at_call.db.marker
              /\ data_applied = at_call.db.data_applied
        /\ HasIssued("script") =>
              /\ dir_kind = "dir" /\ AllNamesValid
              /\ VersionLess(schema_version, version)
              /\ \A i, j \in DOMAIN issued :
                    (issued[i].cmd = "read_dir" /\ issued[j].cmd = "script")
                        => i < j

\* A migrate of a marked data schema failed on a path that is not a
\* directory, after dropping the api schema.
C18_Witness ==
    /\ op = "migrate" /\ pc = "done" /\ error = "not a directory"
    /\ at_call.db.marker # None
    /\ at_call.db.api = "stale" /\ api = "absent"

\* The operation is a migrate (called directly or by
\* check_schema_version) that dropped the api schema and then failed in
\* migrate_data, before update.
FailedInMigrateData ==
    /\ op \in MigrateOps /\ pc = "done" /\ result = "err"
    /\ \E i \in DOMAIN issued : issued[i].cmd = "drop_api_schema" /\ exits[i]
    /\ ~HasIssued("create_api_schema")

\* C19 (as stated): once a migrate has failed on a migration script, the
\* api schema is absent after every later operation that does not succeed.
C19_AbsentUntilSuccess ==
    (at_call.pending # <<>> /\ pc = "done" /\ result = "err")
        => api = "absent"

\* C19 (amended): migrate drops the api schema before it validates
\* anything, so a migrate or check_schema_version that fails in the
\* data-migration step returns with the api schema absent, and a database
\* that had an api schema is changed by it; the schema stays absent until
\* a later operation creates it again in update or restores a dump, and
\* that operation may still fail and leave the schema empty or partly
\* built.
C19_FailedMigrateLeavesApiAbsent ==
    /\ FailedInMigrateData =>
          /\ api = "absent"
          /\ error \in ResolutionErrors
                \cup {"process", "invalid data schema version",
                      "failed to apply migration script",
                      "failed to set schema version"}
          /\ at_call.db.api # "absent" => Database # at_call.db
    /\ (op \in MigrateOps /\ pc = "done"
            /\ error \in {"downgrades are not supported", "invalid version",
                          "failed to apply migration script"})
          => FailedInMigrateData
    /\ (at_call.pending # <<>> /\ api # "absent") =>
          /\ at_call.db.api = "absent"
          /\ HasIssued("create_api_schema") \/ HasIssued("pg_restore")
          /\ result = "err" => api \in {"empty", "partial", "canonical"}
                                  \/ op = "restore"

\* After a migrate that failed on a script, a later migrate ran the
\* pending scripts, created the api schema and failed in api.sql.
C19_Witness ==
    /\ at_call.pending # <<>>
    /\ op = "migrate" /\ pc = "done" /\ result = "err"
    /\ api = "partial"
    /\ LastIssued = "api.sql"

\* C20: a migration script (which migrates from the version in its name)
\* only runs on a data schema whose contents are not beyond that version:
\* no script runs on top of a data schema that a complete run of data.sql
\* bootstrapped at a later version.
C20_NoScriptOnNewerSchema ==
    (data_boot # None /\ Unwrap(data_boot).complete) =>
        \A i \in DOMAIN data_applied :
            VersionLeq(Unwrap(data_boot).version, data_applied[i])

====
